---- MODULE Spec2Model ----
(***************************************************************************)
(* Model of update_metrics.py: the chunked ETL that folds source rows into *)
(* per-day metrics, per-(day, domain) counts and a global e-mail index,    *)
(* and then upserts the three results into MySQL and writes Parquet files. *)
(*                                                                         *)
(* Strings are sequences of one-character strings; a calendar date is a    *)
(* natural number d >= 1 and a timestamp is 2*d (midnight of d) or 2*d+1   *)
(* (noon of d); 0 is NULL / NaT.                                           *)
(***************************************************************************)
EXTENDS Integers, Sequences, FiniteSets, TLC

\* Number of rows of the source table.
MaxRows == 2
\* Number of times the program is started.
MaxRuns == 2

(***************************************************************************)
(* Strings                                                                 *)
(***************************************************************************)
LowerSeq == <<"a","b","c","d","e","f","g","h","i","j","k","l","m",
              "n","o","p","q","r","s","t","u","v","w","x","y","z">>
UpperSeq == <<"A","B","C","D","E","F","G","H","I","J","K","L","M",
              "N","O","P","Q","R","S","T","U","V","W","X","Y","Z">>
Letters == {LowerSeq[i] : i \in DOMAIN LowerSeq} \cup {UpperSeq[i] : i \in DOMAIN UpperSeq}
Digits == {"0","1","2","3","4","5","6","7","8","9"}
Whitespace == {" ", "\t", "\n", "\r"}

\* SQL NULL / Python None in an e-mail cell.
NULL == <<"NULL">>
\* NaT / NULL in a date or timestamp cell.
NaT == 0

\* str.lower() on one character.
LowerChar(c) ==
    IF \E i \in DOMAIN UpperSeq : UpperSeq[i] = c
    THEN LowerSeq[CHOOSE i \in DOMAIN UpperSeq : UpperSeq[i] = c]
    ELSE c

\* str.lower()
Lower(s) == [i \in DOMAIN s |-> LowerChar(s[i])]

\* str.strip()
Strip(s) ==
    LET keep == {i \in DOMAIN s : s[i] \notin Whitespace}
        Min(S) == CHOOSE x \in S : \A y \in S : x <= y
        Max(S) == CHOOSE x \in S : \A y \in S : x >= y
    IN  IF keep = {} THEN <<>> ELSE SubSeq(s, Min(keep), Max(keep))

\* Series.astype(str) on one cell: None becomes the four-letter string "None".
AsTypeStr(e) == IF e = NULL THEN <<"N","o","n","e">> ELSE e

LocalChars == Letters \cup Digits \cup {".", "_", "%", "+", "-", "'"}
HostChars == Letters \cup Digits \cup {".", "-"}

\* RegexBody with a top-level domain of one letter or more.
RegexBody_OneLetterTld(s) ==
    \E i \in 2..Len(s) : \E j \in (i + 2)..(Len(s) - 1) :
        /\ s[i] = "@"
        /\ \A k \in 1..(i - 1) : s[k] \in LocalChars
        /\ \A k \in (i + 1)..(j - 1) : s[k] \in HostChars
        /\ s[j] = "."
        /\ \A k \in (j + 1)..Len(s) : s[k] \in Letters

\* ^[A-Za-z0-9._%+\-']+@[A-Za-z0-9.\-]+\.[A-Za-z]{2,} up to the end of s.
RegexBody(s) ==
    \E i \in 2..Len(s) : \E j \in (i + 2)..(Len(s) - 2) :
        /\ s[i] = "@"
        /\ \A k \in 1..(i - 1) : s[k] \in LocalChars
        /\ \A k \in (i + 1)..(j - 1) : s[k] \in HostChars
        /\ s[j] = "."
        /\ \A k \in (j + 1)..Len(s) : s[k] \in Letters

\* EMAIL_REGEX.match(s): "$" also matches just before one trailing newline.
EMAIL_REGEX(s) ==
    \/ RegexBody(s)
    \/ /\ Len(s) > 0
       /\ s[Len(s)] = "\n"
       /\ RegexBody(SubSeq(s, 1, Len(s) - 1))

\* valid_email(e)
valid_email(e) == e # NULL /\ Strip(e) # <<>> /\ EMAIL_REGEX(Strip(e))

\* email_domain(e): the text after the first "@", lowercased and stripped;
\* None (NULL) when there is no "@".
email_domain(e) ==
    LET ats == {i \in DOMAIN e : e[i] = "@"}
        first == CHOOSE i \in ats : \A k \in ats : i <= k
    IN  IF ats = {} THEN NULL
        ELSE Strip(Lower(SubSeq(e, first + 1, Len(e))))

\* pd.to_datetime(..., errors="coerce").dt.date on one cell.
ToDate(t) == IF t = NaT THEN NaT ELSE t \div 2

\* pd.to_datetime(date): midnight of that date.
ToDatetime(d) == IF d = NaT THEN NaT ELSE 2 * d

(***************************************************************************)
(* Aggregators (module-level state of one process) and process_chunk       *)
(***************************************************************************)
\* The counters a date gets on first use: the defaultdict's factory.
DailyDefault ==
    [total_rows |-> 0, with_email |-> 0, valid_emails |-> 0, invalid_emails |-> 0,
     duplicates_extra_rows |-> 0, unique_valid_emails |-> 0, sendable_emails |-> 0,
     total_opens |-> 0, total_clicks |-> 0]

\* The empty dict.
EmptyMap == [x \in {} |-> 0]

RECURSIVE SumOver(_, _)
\* sum of f over the keys in S
SumOver(f, S) ==
    IF S = {} THEN 0
    ELSE LET x == CHOOSE y \in S : TRUE IN f[x] + SumOver(f, S \ {x})

\* Series.value_counts(): value -> number of occurrences.
ValueCounts(s) ==
    [v \in {s[i] : i \in DOMAIN s} |-> Cardinality({i \in DOMAIN s : s[i] = v})]

\* Lines 77-78: the e-mail column stringified and stripped, the date column
\* parsed to a date (NaT when it does not parse).
Prepare(chunk) ==
    [i \in DOMAIN chunk |->
        [email |-> Strip(AsTypeStr(chunk[i].email)),
         metric_date |-> ToDate(chunk[i].created_at)]]

\* GroupKeys keeping the group of the rows without a date.
GroupKeys_WithNaT(p) == {p[i].metric_date : i \in DOMAIN p}

\* The keys of chunk.groupby("_metric_date", dropna=True).
GroupKeys(p) == {p[i].metric_date : i \in DOMAIN p} \ {NaT}

\* The rows of one group, in chunk order.
SubGroup(p, d) == SelectSeq(p, LAMBDA r : r.metric_date = d)

\* sub[sub[EMAIL_COLUMN].str.len() > 0]
WithEmail(sub) == SelectSeq(sub, LAMBDA r : Len(r.email) > 0)

\* with_email[valid_mask]
ValidDf(with_email) == SelectSeq(with_email, LAMBDA r : EMAIL_REGEX(Lower(r.email)))

\* InvalidDf without the negation of the mask.
InvalidDf_All(with_email) == with_email

\* with_email[~valid_mask]
InvalidDf(with_email) == SelectSeq(with_email, LAMBDA r : ~EMAIL_REGEX(Lower(r.email)))

\* vc = valid_df[EMAIL_COLUMN].str.lower().value_counts()
LowerCounts(valid_df) == ValueCounts([i \in DOMAIN valid_df |-> Lower(valid_df[i].email)])

\* int((vc[vc > 1] - 1).sum()) if not vc.empty else 0
DuplicatesExtra(vc) ==
    LET more == [v \in DOMAIN vc |-> vc[v] - 1]
    IN  SumOver(more, {v \in DOMAIN vc : vc[v] > 1})

\* UniqueValid counting rows instead of distinct values.
UniqueValid_Rows(vc) == SumOver(vc, DOMAIN vc)

\* int(vc.shape[0]) if not vc.empty else 0
UniqueValid(vc) == Cardinality(DOMAIN vc)

\* doms.value_counts() of valid_df's domains, None dropped.
DomainCounts(valid_df) ==
    LET doms == SelectSeq([i \in DOMAIN valid_df |-> email_domain(Lower(valid_df[i].email))],
                          LAMBDA x : x # NULL)
    IN  ValueCounts(doms)

\* Lines 85-108: what one date group adds to daily[dkey].
GroupDelta(sub) ==
    LET with_email == WithEmail(sub)
        valid_df == ValidDf(with_email)
        invalid_df == InvalidDf(with_email)
        vc == LowerCounts(valid_df)
    IN  [total_rows |-> Len(sub),
         with_email |-> Len(with_email),
         valid_emails |-> Len(valid_df),
         invalid_emails |-> Len(invalid_df),
         duplicates_extra_rows |-> DuplicatesExtra(vc),
         unique_valid_emails |-> UniqueValid(vc),
         sendable_emails |-> Len(valid_df),
         total_opens |-> 0,
         total_clicks |-> 0]

\* AddCounters assigning instead of adding.
AddCounters_Overwrite(row, delta) == [k \in DOMAIN row |-> delta[k]]

\* daily[dkey][k] += delta[k] for every counter k.
AddCounters(row, delta) == [k \in DOMAIN row |-> row[k] + delta[k]]

\* Lines 80-108 over all groups of the chunk.
DailyFold(dly, p) ==
    [d \in DOMAIN dly \cup GroupKeys(p) |->
        IF d \in GroupKeys(p)
        THEN AddCounters(IF d \in DOMAIN dly THEN dly[d] ELSE DailyDefault,
                         GroupDelta(SubGroup(p, d)))
        ELSE dly[d]]

\* domains_daily[dkey][dom] += int(cnt) for every domain of the group.
AddDomains(old, counts) ==
    [dom \in DOMAIN old \cup DOMAIN counts |->
        (IF dom \in DOMAIN old THEN old[dom] ELSE 0)
        + (IF dom \in DOMAIN counts THEN counts[dom] ELSE 0)]

\* DomainsFold taking the domains of every non-empty e-mail, valid or not.
DomainsFold_WithEmail(dd, p) ==
    LET touched == {d \in GroupKeys(p) : WithEmail(SubGroup(p, d)) # <<>>}
    IN  [d \in DOMAIN dd \cup touched |->
            IF d \in touched
            THEN AddDomains(IF d \in DOMAIN dd THEN dd[d] ELSE EmptyMap,
                            DomainCounts(WithEmail(SubGroup(p, d))))
            ELSE dd[d]]

\* Lines 110-113 over all groups of the chunk: only a group with a valid
\* e-mail touches domains_daily[dkey].
DomainsFold(dd, p) ==
    LET touched == {d \in GroupKeys(p) : ValidDf(WithEmail(SubGroup(p, d))) # <<>>}
    IN  [d \in DOMAIN dd \cup touched |->
            IF d \in touched
            THEN AddDomains(IF d \in DOMAIN dd THEN dd[d] ELSE EmptyMap,
                            DomainCounts(ValidDf(WithEmail(SubGroup(p, d)))))
            ELSE dd[d]]

\* Lines 115-116: the rows with a matching e-mail and a date.
ValidAll(p) ==
    SelectSeq(p, LAMBDA r : EMAIL_REGEX(Lower(r.email)) /\ r.metric_date # NaT)

\* DedupRow setting first_seen to the date of the row at hand.
DedupRow_FirstIsLatest(g, r) ==
    LET e == Strip(Lower(r.email))
        dt == r.metric_date
        seen == e \in DOMAIN g.counts
    IN  [counts |-> [x \in DOMAIN g.counts \cup {e} |->
                        IF x = e THEN (IF seen THEN g.counts[e] ELSE 0) + 1
                        ELSE g.counts[x]],
         first |-> [x \in DOMAIN g.first \cup {e} |-> IF x = e THEN dt ELSE g.first[x]],
         last |-> [x \in DOMAIN g.last \cup {e} |->
                        IF x = e
                        THEN (IF e \notin DOMAIN g.last \/ dt > g.last[e] THEN dt ELSE g.last[e])
                        ELSE g.last[x]]]

\* Lines 117-123 for one row.
DedupRow(g, r) ==
    LET e == Strip(Lower(r.email))
        dt == r.metric_date
        seen == e \in DOMAIN g.counts
    IN  [counts |-> [x \in DOMAIN g.counts \cup {e} |->
                        IF x = e THEN (IF seen THEN g.counts[e] ELSE 0) + 1
                        ELSE g.counts[x]],
         first |-> [x \in DOMAIN g.first \cup {e} |->
                        IF x = e
                        THEN (IF e \notin DOMAIN g.first \/ dt < g.first[e] THEN dt ELSE g.first[e])
                        ELSE g.first[x]],
         last |-> [x \in DOMAIN g.last \cup {e} |->
                        IF x = e
                        THEN (IF e \notin DOMAIN g.last \/ dt > g.last[e] THEN dt ELSE g.last[e])
                        ELSE g.last[x]]]

RECURSIVE DedupFold(_, _)
\* Lines 116-123: the rows of valid_all one after the other.
DedupFold(g, rows) ==
    IF rows = <<>> THEN g ELSE DedupFold(DedupRow(g, Head(rows)), Tail(rows))

\* Line 74: both required columns are in the chunk.
HasColumns(cols) == "email" \in cols /\ "date" \in cols

(***************************************************************************)
(* flush_to_mysql: the three data frames and the three upserts             *)
(***************************************************************************)
\* Lines 128-134: one row per date of daily, metric_date passed through
\* pd.to_datetime(...).dt.date.
DailyDf(dly) ==
    [d \in {ToDate(ToDatetime(x)) : x \in DOMAIN dly} |->
        dly[CHOOSE x \in DOMAIN dly : ToDate(ToDatetime(x)) = d]]

\* Lines 162-166: one row per (date, domain) of domains_daily.
MtdDf(dd) ==
    LET doms == UNION {DOMAIN dd[x] : x \in DOMAIN dd}
    IN  [k \in {k2 \in (DOMAIN dd) \X doms : k2[2] \in DOMAIN dd[k2[1]]} |->
            dd[k[1]][k[2]]]

\* dict.get(e): None when the key is missing.
DictGet(f, e) == IF e \in DOMAIN f THEN f[e] ELSE NaT

\* Lines 182-190: one row per e-mail of email_global_counts.
RepDf(counts, first, last) ==
    [e \in DOMAIN counts |->
        [occurrences |-> counts[e],
         first_seen |-> DictGet(first, e),
         last_seen |-> DictGet(last, e)]]

\* SQL COALESCE(a, b)
Coalesce(a, b) == IF a = NaT THEN b ELSE a

\* SQL LEAST(a, b): NULL when either is NULL.
Least(a, b) == IF a = NaT \/ b = NaT THEN NaT ELSE IF a <= b THEN a ELSE b

\* SQL GREATEST(a, b): NULL when either is NULL.
Greatest(a, b) == IF a = NaT \/ b = NaT THEN NaT ELSE IF a >= b THEN a ELSE b

\* UpsertDaily adding the new counters to the stored ones.
UpsertDaily_Additive(table, daily_df) ==
    [d \in DOMAIN table \cup DOMAIN daily_df |->
        IF d \notin DOMAIN daily_df THEN table[d]
        ELSE IF d \notin DOMAIN table THEN daily_df[d]
        ELSE [k \in DOMAIN daily_df[d] |-> table[d][k] + daily_df[d][k]]]

\* Lines 141-158: INSERT ... ON DUPLICATE KEY UPDATE every counter = VALUES(..).
UpsertDaily(table, daily_df) ==
    [d \in DOMAIN table \cup DOMAIN daily_df |->
        IF d \in DOMAIN daily_df THEN daily_df[d] ELSE table[d]]

\* UpsertDomains replacing the table by the new rows.
UpsertDomains_Replace(table, mtd_df) == mtd_df

\* Lines 172-178: INSERT ... ON DUPLICATE KEY UPDATE cnt = VALUES(cnt).
UpsertDomains(table, mtd_df) ==
    [k \in DOMAIN table \cup DOMAIN mtd_df |->
        IF k \in DOMAIN mtd_df THEN mtd_df[k] ELSE table[k]]

\* MergeRepeated adding the new occurrences to the stored ones.
MergeRepeated_Additive(old, new) ==
    [occurrences |-> old.occurrences + new.occurrences,
     first_seen |-> Least(Coalesce(old.first_seen, new.first_seen), new.first_seen),
     last_seen |-> Greatest(Coalesce(old.last_seen, new.last_seen), new.last_seen)]

\* MergeRepeated overwriting first_seen and last_seen like occurrences.
MergeRepeated_Overwrite(old, new) == new

\* Lines 201-203: the ON DUPLICATE KEY UPDATE clause for one existing row.
MergeRepeated(old, new) ==
    [occurrences |-> new.occurrences,
     first_seen |-> Least(Coalesce(old.first_seen, new.first_seen), new.first_seen),
     last_seen |-> Greatest(Coalesce(old.last_seen, new.last_seen), new.last_seen)]

\* Lines 196-204: insert the new e-mails, merge the existing ones.
UpsertRepeated(table, rep_df) ==
    [e \in DOMAIN table \cup DOMAIN rep_df |->
        IF e \notin DOMAIN rep_df THEN table[e]
        ELSE IF e \notin DOMAIN table THEN rep_df[e]
        ELSE MergeRepeated(table[e], rep_df[e])]

(***************************************************************************)
(* main: the range query and the two detail extracts                       *)
(***************************************************************************)
\* Lines 232-247: does the WHERE clause keep a row created at t?  start and
\* end are dates (compared as their midnight) or NaT when not given; a NULL
\* created_at satisfies no comparison.
Where(full_rebuild, start, end, t) ==
    IF full_rebuild THEN TRUE
    ELSE IF start # NaT /\ end # NaT
         THEN t # NaT /\ ToDatetime(start) <= t /\ t <= ToDatetime(end)
    ELSE IF start # NaT THEN t # NaT /\ ToDatetime(start) <= t
    ELSE IF end # NaT THEN t # NaT /\ t <= ToDatetime(end)
    ELSE TRUE

RECURSIVE Ascending(_)
\* the members of a set of row numbers in table order
Ascending(S) ==
    IF S = {} THEN <<>>
    ELSE LET m == CHOOSE x \in S : \A y \in S : x <= y
         IN  <<m>> \o Ascending(S \ {m})

\* Line 255: the row numbers the query returns, in table order.
Select(src, full_rebuild, start, end) ==
    Ascending({i \in DOMAIN src : Where(full_rebuild, start, end, src[i].created_at)})

\* Lines 272-273: df_full, the rows of the whole table with a parseable date.
DfFull(src) == SelectSeq(src, LAMBDA r : ToDate(r.created_at) # NaT)

\* Lines 275-287: occurrences per (lowercased e-mail, date); groupby drops
\* the rows whose e-mail is NULL.
RepeatedDaily(src) ==
    LET rows == SelectSeq(DfFull(src), LAMBDA r : r.email # NULL)
    IN  ValueCounts([i \in DOMAIN rows |-> <<Lower(rows[i].email), ToDate(rows[i].created_at)>>])

\* Lines 293-297: the row-level extract.
DataFull(src) ==
    LET rows == DfFull(src)
    IN  [i \in DOMAIN rows |-> [Email |-> rows[i].email, date |-> ToDate(rows[i].created_at)]]

(***************************************************************************)
(* Inputs                                                                  *)
(***************************************************************************)
E_a == <<"a", "@", "x", ".", "c", "o">>
\* the same address as E_a once stripped and lowercased
E_A == <<" ", "A", "@", "X", ".", "C", "o">>
E_b == <<"b", "@", "y", ".", "c", "o">>
\* a one-letter top-level domain
E_bad == <<"a", "@", "x", ".", "c">>
E_ws == <<" ">>

\* E-mail cells and timestamps of the rows handed to process_chunk directly.
FoldEmails == {E_a, E_A, E_b, E_bad, E_ws, NULL}
FoldTimes == {NaT, 2, 5}
FoldRows == [email : FoldEmails, created_at : FoldTimes]

\* E-mail cells given to process_chunk one at a time: one- and two-letter
\* top-level domains, two "@", capitals and a "+", no "@", no host label.
S_abc == <<"a", "@", "b", ".", "c">>
S_ABC == <<"A", "@", "B", ".", "C">>
S_abco == <<"a", "@", "b", ".", "c", "o">>
S_two_ats == <<"a", "@", "@", "b", ".", "c", "o", "m">>
S_john == <<"J", "o", "h", "n", ".", "D", "o", "e", "+", "x", "@",
            "s", "u", "b", ".", "e", "x", "a", "m", "p", "l", "e", ".", "c", "o">>
S_not_an_email == <<"n", "o", "t", "-", "a", "n", "-", "e", "m", "a", "i", "l">>
S_no_host == <<"a", "@", ".", "c", "o">>
ClassifyEmails ==
    FoldEmails \cup {S_abc, S_ABC, S_abco, S_two_ats, S_john, S_not_an_email, S_no_host}

\* The largest source table of whole runs: day 1 at midnight and at noon,
\* day 2 and day 3 at midnight.
BaseTable ==
    << [email |-> E_a, created_at |-> 2],
       [email |-> E_b, created_at |-> 3],
       [email |-> E_A, created_at |-> 4],
       [email |-> E_bad, created_at |-> 6] >>

\* --start / --end values: not given, or a date.
ArgDates == {NaT} \cup {ToDate(BaseTable[i].created_at) : i \in DOMAIN BaseTable}

\* The command lines: --full-rebuild, or any of --start and --end.
Args ==
    {[full_rebuild |-> TRUE, start |-> NaT, end |-> NaT]}
    \cup [full_rebuild : {FALSE}, start : ArgDates, end : ArgDates]

RECURSIVE SeqsOfLen(_, _)
\* the sequences of n members of S
SeqsOfLen(S, n) ==
    IF n = 0 THEN {<<>>}
    ELSE {Append(q, x) : q \in SeqsOfLen(S, n - 1), x \in S}

RECURSIVE SubTables(_)
\* the tables made of some rows of t, in t's order
SubTables(t) ==
    IF t = <<>> THEN {<<>>}
    ELSE LET rest == SubTables(Tail(t))
         IN  rest \cup {<<Head(t)>> \o r : r \in rest}

RECURSIVE Cuttings(_)
\* the ways of cutting s into consecutive non-empty chunks
Cuttings(s) ==
    IF s = <<>> THEN {<<>>}
    ELSE UNION {{<<SubSeq(s, 1, n)>> \o c : c \in Cuttings(SubSeq(s, n + 1, Len(s)))} :
                    n \in 1..Len(s)}

RECURSIVE Chunks(_, _)
\* Line 258: pd.read_sql(..., chunksize=cs) hands out the result cs rows at
\* a time, fewer in the last chunk.
Chunks(sel, cs) ==
    IF sel = <<>> THEN <<>>
    ELSE LET n == IF cs < Len(sel) THEN cs ELSE Len(sel)
         IN  <<SubSeq(sel, 1, n)>> \o Chunks(SubSeq(sel, n + 1, Len(sel)), cs)

(***************************************************************************)
(* State                                                                   *)
(***************************************************************************)
VARIABLES
    source,                     \* the source table: a sequence of rows
    pc,                         \* where the process is
    runs,                       \* how many times the program was started
    pending,                    \* the chunks the cursor has yet to hand out,
                                \* each a sequence of row numbers of source
    daily, domains_daily, email_global_counts, email_first_seen, email_last_seen,
    metrics_daily, metrics_top_domains_daily, metrics_repeated_emails,
    parquet,                    \* the files under DATA_DIR
    folded,                     \* history: the chunks folded by this run
    pre,                        \* history: the tables and files when this run started
    prev,                       \* history: the run before this one
    processed,                  \* history: row numbers folded by the runs so far,
                                \* kept as long as every run has completed
    allCompleted                \* history: no run has failed so far

accs == <<daily, domains_daily, email_global_counts, email_first_seen, email_last_seen>>
tables == <<metrics_daily, metrics_top_domains_daily, metrics_repeated_emails>>
hist == <<pre, prev, processed, allCompleted>>
vars == <<source, pc, runs, pending, accs, tables, parquet, folded, hist>>

\* The tables and files as one value.
Store == [metrics_daily |-> metrics_daily,
          metrics_top_domains_daily |-> metrics_top_domains_daily,
          metrics_repeated_emails |-> metrics_repeated_emails,
          parquet |-> parquet]

NoFiles == [metrics_daily |-> <<>>, metrics_top_domains_daily |-> <<>>,
            metrics_repeated_emails |-> <<>>,
            metrics_repeated_emails_daily |-> <<>>, data_full |-> <<>>]

EmptyStore == [metrics_daily |-> EmptyMap, metrics_top_domains_daily |-> EmptyMap,
               metrics_repeated_emails |-> EmptyMap, parquet |-> NoFiles]

\* The row numbers in a sequence of chunks.
RowsOf(chunks) == UNION {{chunks[k][i] : i \in DOMAIN chunks[k]} : k \in DOMAIN chunks}

\* The dates of the rows in a sequence of chunks.
DatesOf(chunks) == {ToDate(source[i].created_at) : i \in RowsOf(chunks)} \ {NaT}

\* The rows of a table keyed by date whose date is not in D.
DailyOutside(table, D) == [d \in DOMAIN table \ D |-> table[d]]

\* The rows of a table keyed by (date, domain) whose date is not in D.
DomainsOutside(table, D) == [k \in {k2 \in DOMAIN table : k2[1] \notin D} |-> table[k]]

NoPrev == [ok |-> FALSE, same |-> FALSE, dates |-> {},
           daily_outside |-> EmptyMap, domains_outside |-> EmptyMap]

\* What is remembered of a run when the next one starts with the chunks
\* next: whether it completed, whether its chunks were the same, their
\* dates, and the rows of other dates the two date-keyed tables held before it.
Remember(next) ==
    IF pc = "done"
    THEN [ok |-> TRUE, same |-> (next = folded), dates |-> DatesOf(folded),
          daily_outside |-> DailyOutside(pre.metrics_daily, DatesOf(folded)),
          domains_outside |-> DomainsOutside(pre.metrics_top_domains_daily, DatesOf(folded))]
    ELSE NoPrev

\* Lines 55-70: the module-level aggregators of a fresh process.
FreshAccs ==
    /\ daily = EmptyMap
    /\ domains_daily = EmptyMap
    /\ email_global_counts = EmptyMap
    /\ email_first_seen = EmptyMap
    /\ email_last_seen = EmptyMap

EmptyTables ==
    /\ metrics_daily = EmptyMap
    /\ metrics_top_domains_daily = EmptyMap
    /\ metrics_repeated_emails = EmptyMap
    /\ parquet = NoFiles

NoHistory ==
    /\ folded = <<>>
    /\ pre = EmptyStore
    /\ prev = NoPrev
    /\ processed = {}
    /\ allCompleted = TRUE

\* Before the first run: empty destination tables, no files.
Init ==
    /\ source \in SubTables(BaseTable)
    /\ pc = "idle"
    /\ runs = 0
    /\ pending = <<>>
    /\ FreshAccs
    /\ EmptyTables
    /\ NoHistory

\* process_chunk called on any cutting of any rows: a fresh process whose
\* cursor is about to hand out all of source.
FoldInit ==
    /\ source \in UNION {SeqsOfLen(FoldRows, n) : n \in 1..MaxRows}
    /\ pc = "read"
    /\ runs = 1
    /\ pending \in Cuttings([i \in 1..Len(source) |-> i])
    /\ FreshAccs
    /\ EmptyTables
    /\ NoHistory

\* process_chunk called once on one row: a fresh process whose cursor is
\* about to hand out a single chunk of one row.
ClassifyInit ==
    /\ source \in {<<[email |-> e, created_at |-> t]>> : e \in ClassifyEmails, t \in FoldTimes}
    /\ pc = "read"
    /\ runs = 1
    /\ pending = <<<<1>>>>
    /\ FreshAccs
    /\ EmptyTables
    /\ NoHistory

(***************************************************************************)
(* Actions                                                                 *)
(***************************************************************************)
\* A fresh process whose cursor will hand out the chunks next: empty
\* aggregators (lines 55-70), nothing folded yet.
NewProcess(next) ==
    /\ pc \in {"idle", "done", "failed"}
    /\ runs < MaxRuns
    /\ runs' = runs + 1
    /\ daily' = EmptyMap
    /\ domains_daily' = EmptyMap
    /\ email_global_counts' = EmptyMap
    /\ email_first_seen' = EmptyMap
    /\ email_last_seen' = EmptyMap
    /\ folded' = <<>>
    /\ pre' = Store
    /\ pending' = next
    /\ prev' = Remember(next)

\* python update_metrics.py [--full-rebuild] [--start S] [--end E] with
\* CHUNKSIZE=cs: the query of lines 232-255 and its cursor.
StartRun ==
    /\ pc \in {"idle", "done", "failed"}
    /\ runs < MaxRuns
    /\ \E sel \in {Select(source, a.full_rebuild, a.start, a.end) : a \in Args} :
          \E next \in {Chunks(sel, cs) : cs \in 1..MaxRows} : NewProcess(next)
    /\ pc' = IF pending' = <<>> THEN "flush_daily" ELSE "read"
    /\ UNCHANGED <<source, tables, parquet, processed, allCompleted>>

\* Lines 224-226: DATABASE_URL is not set; the process exits at once.
ConfigError ==
    /\ NewProcess(<<>>)
    /\ pc' = "failed"
    /\ allCompleted' = FALSE
    /\ processed' = {}
    /\ UNCHANGED <<source, tables, parquet>>

\* process_chunk on a chunk that has both columns.
ProcessChunk(idx) ==
    LET chunk == [i \in DOMAIN idx |-> source[idx[i]]]
        p == Prepare(chunk)
        g == DedupFold([counts |-> email_global_counts,
                        first |-> email_first_seen,
                        last |-> email_last_seen], ValidAll(p))
    IN  /\ daily' = DailyFold(daily, p)
        /\ domains_daily' = DomainsFold(domains_daily, p)
        /\ email_global_counts' = g.counts
        /\ email_first_seen' = g.first
        /\ email_last_seen' = g.last

\* ReadChunk upserting metrics_daily after every chunk.
ReadChunk_Flushing ==
    /\ pc = "read"
    /\ pending # <<>>
    /\ ProcessChunk(Head(pending))
    /\ folded' = Append(folded, Head(pending))
    /\ pending' = Tail(pending)
    /\ pc' = IF pending' = <<>> THEN "flush_daily" ELSE "read"
    /\ metrics_daily' = UpsertDaily(metrics_daily, DailyDf(daily'))
    /\ UNCHANGED <<source, runs, metrics_top_domains_daily, metrics_repeated_emails,
                   parquet, hist>>

\* Lines 258-260: the next chunk of the cursor goes through process_chunk.
ReadChunk ==
    /\ pc = "read"
    /\ pending # <<>>
    /\ ProcessChunk(Head(pending))
    /\ folded' = Append(folded, Head(pending))
    /\ pending' = Tail(pending)
    /\ pc' = IF pending' = <<>> THEN "flush_daily" ELSE "read"
    /\ UNCHANGED <<source, runs, tables, parquet, hist>>

\* Lines 74-75: the chunk lacks a required column; RuntimeError ends the run.
BadChunk ==
    /\ pc = "read"
    /\ pending # <<>>
    /\ \E cols \in SUBSET {"email", "date"} : ~HasColumns(cols)
    /\ pc' = "failed"
    /\ allCompleted' = FALSE
    /\ processed' = {}
    /\ UNCHANGED <<source, runs, pending, accs, tables, parquet, folded, pre, prev>>

\* Lines 137-159: the metrics_daily transaction.  With no date at all the
\* frame has no counter columns and the INSERT ... SELECT cannot run (Crash).
FlushDaily ==
    /\ pc = "flush_daily"
    /\ DOMAIN daily # {}
    /\ metrics_daily' = UpsertDaily(metrics_daily, DailyDf(daily))
    /\ pc' = "flush_domains"
    /\ UNCHANGED <<source, runs, pending, accs, metrics_top_domains_daily,
                   metrics_repeated_emails, parquet, folded, hist>>

\* Lines 167-180: the metrics_top_domains_daily transaction, skipped when
\* there is no row.
FlushDomains ==
    /\ pc = "flush_domains"
    /\ metrics_top_domains_daily' =
          IF DOMAIN MtdDf(domains_daily) # {}
          THEN UpsertDomains(metrics_top_domains_daily, MtdDf(domains_daily))
          ELSE metrics_top_domains_daily
    /\ pc' = "flush_emails"
    /\ UNCHANGED <<source, runs, pending, accs, metrics_daily,
                   metrics_repeated_emails, parquet, folded, hist>>

\* Lines 191-206: the metrics_repeated_emails transaction, skipped when
\* there is no row.
FlushEmails ==
    /\ pc = "flush_emails"
    /\ LET rep_df == RepDf(email_global_counts, email_first_seen, email_last_seen)
       IN  metrics_repeated_emails' =
              IF DOMAIN rep_df # {}
              THEN UpsertRepeated(metrics_repeated_emails, rep_df)
              ELSE metrics_repeated_emails
    /\ pc' = "pq_daily"
    /\ UNCHANGED <<source, runs, pending, accs, metrics_daily,
                   metrics_top_domains_daily, parquet, folded, hist>>

\* Lines 208-210: metrics_daily.parquet
WriteDaily ==
    /\ pc = "pq_daily"
    /\ parquet' = [parquet EXCEPT !.metrics_daily = <<DailyDf(daily)>>]
    /\ pc' = "pq_domains"
    /\ UNCHANGED <<source, runs, pending, accs, tables, folded, hist>>

\* Lines 211-212: metrics_top_domains_daily.parquet, when there is a row.
WriteDomains ==
    /\ pc = "pq_domains"
    /\ parquet' = IF DOMAIN MtdDf(domains_daily) # {}
                  THEN [parquet EXCEPT !.metrics_top_domains_daily = <<MtdDf(domains_daily)>>]
                  ELSE parquet
    /\ pc' = "pq_emails"
    /\ UNCHANGED <<source, runs, pending, accs, tables, folded, hist>>

\* Lines 213-215: metrics_repeated_emails.parquet, when there is a row.
WriteEmails ==
    /\ pc = "pq_emails"
    /\ LET rep_df == RepDf(email_global_counts, email_first_seen, email_last_seen)
       IN  parquet' = IF DOMAIN rep_df # {}
                      THEN [parquet EXCEPT !.metrics_repeated_emails = <<rep_df>>]
                      ELSE parquet
    /\ pc' = "pq_emails_daily"
    /\ UNCHANGED <<source, runs, pending, accs, tables, folded, hist>>

\* Lines 266-290: the full read and metrics_repeated_emails_daily.parquet
WriteRepeatedDaily ==
    /\ pc = "pq_emails_daily"
    /\ parquet' = [parquet EXCEPT !.metrics_repeated_emails_daily = <<RepeatedDaily(source)>>]
    /\ pc' = "pq_full"
    /\ UNCHANGED <<source, runs, pending, accs, tables, folded, hist>>

\* Lines 292-301: data_full.parquet; the run has completed.
WriteDataFull ==
    /\ pc = "pq_full"
    /\ parquet' = [parquet EXCEPT !.data_full = <<DataFull(source)>>]
    /\ pc' = "done"
    /\ processed' = IF allCompleted THEN processed \cup RowsOf(folded) ELSE {}
    /\ UNCHANGED <<source, runs, pending, accs, tables, folded, pre, prev, allCompleted>>

\* The statement the process is at talks to the database or the file system.
DoesIO ==
    \/ pc \in {"read", "flush_daily", "pq_daily", "pq_emails_daily", "pq_full"}
    \/ pc \in {"flush_domains", "pq_domains"} /\ DOMAIN MtdDf(domains_daily) # {}
    \/ pc \in {"flush_emails", "pq_emails"} /\ DOMAIN email_global_counts # {}

\* An exception of the database driver or the file system: no handler in
\* main or flush_to_mysql, the process ends; the open transaction rolls back.
Crash ==
    /\ DoesIO
    /\ pc' = "failed"
    /\ allCompleted' = FALSE
    /\ processed' = {}
    /\ UNCHANGED <<source, runs, pending, accs, tables, parquet, folded, pre, prev>>

Next ==
    \/ StartRun
    \/ ConfigError
    \/ ReadChunk
    \/ BadChunk
    \/ FlushDaily
    \/ FlushDomains
    \/ FlushEmails
    \/ WriteDaily
    \/ WriteDomains
    \/ WriteEmails
    \/ WriteRepeatedDaily
    \/ WriteDataFull
    \/ Crash

Spec == Init /\ [][Next]_vars

FoldNext == ReadChunk \/ BadChunk

\* process_chunk alone, on every cutting of every row sequence.
FoldSpec == FoldInit /\ [][FoldNext]_vars

\* process_chunk on one row at a time.
ClassifySpec == ClassifyInit /\ [][FoldNext]_vars

(***************************************************************************)
(* What the properties speak of                                            *)
(***************************************************************************)
\* The normalized form of an e-mail cell: trimmed and lowercased.
Norm(raw) == Lower(Strip(AsTypeStr(raw)))

\* Row i of source has a valid-format e-mail.
ValidRow(i) == EMAIL_REGEX(Norm(source[i].email))

\* The date of row i of source (NaT when it has none).
RowDate(i) == ToDate(source[i].created_at)

\* The rows among R with a valid e-mail normalizing to e and a date.
RowsWith(R, e) == {i \in R : ValidRow(i) /\ Norm(source[i].email) = e /\ RowDate(i) # NaT}

\* The distinct normalized valid e-mails of date d among the rows R.
DistinctValid(R, d) == {Norm(source[i].email) : i \in {j \in R : ValidRow(j) /\ RowDate(j) = d}}

\* The rows of one chunk.
ChunkRows(idx) == {idx[i] : i \in DOMAIN idx}

RECURSIVE SumDistinct(_, _)
\* Over the first k chunks folded: the sum of each chunk's number of
\* distinct normalized valid e-mails of date d.
SumDistinct(k, d) ==
    IF k = 0 THEN 0
    ELSE Cardinality(DistinctValid(ChunkRows(folded[k]), d)) + SumDistinct(k - 1, d)

\* Every chunk of the cursor has been folded.
AllFolded == pc = "flush_daily" /\ pending = <<>>

\* The three upserts of the run have committed.
Flushed == pc \in {"pq_daily", "pq_domains", "pq_emails", "pq_emails_daily", "pq_full", "done"}

MinOf(S) == CHOOSE x \in S : \A y \in S : x <= y
MaxOf(S) == CHOOSE x \in S : \A y \in S : x >= y

(***************************************************************************)
(* C3                                                                      *)
(***************************************************************************)
\* C3: after any sequence of folds, every date of daily has
\* with_email = valid_emails + invalid_emails, total_rows >= with_email and
\* unique_valid_emails <= valid_emails.
C3_DailyCounters ==
    \A d \in DOMAIN daily :
        /\ daily[d].with_email = daily[d].valid_emails + daily[d].invalid_emails
        /\ daily[d].total_rows >= daily[d].with_email
        /\ daily[d].unique_valid_emails <= daily[d].valid_emails

\* Two chunks folded into one date: a row without e-mail and a valid one,
\* or an invalid one.
C3_Witness ==
    /\ Len(folded) = 2
    /\ \E d \in DOMAIN daily :
          /\ daily[d].total_rows = 2
          /\ daily[d].with_email = 1
          /\ daily[d].valid_emails + daily[d].invalid_emails = 1

(***************************************************************************)
(* C4                                                                      *)
(***************************************************************************)
\* C4 as stated: at the end of a run, unique_valid_emails[d] is the number
\* of distinct normalized valid e-mails among all rows of date d folded in
\* the run, also when the same e-mail comes in two chunks.
C4_DistinctOverRun ==
    AllFolded =>
        \A d \in DOMAIN daily :
            daily[d].unique_valid_emails = Cardinality(DistinctValid(RowsOf(folded), d))

\* C4 amended: unique_valid_emails[d] is the sum over the chunks folded so
\* far of each chunk's number of distinct normalized valid e-mails of date
\* d; it is never below the distinct count of the run, and equal to it
\* when no such e-mail is in two chunks.
C4_SumOfChunkDistinct ==
    \A d \in DOMAIN daily :
        /\ daily[d].unique_valid_emails = SumDistinct(Len(folded), d)
        /\ daily[d].unique_valid_emails >= Cardinality(DistinctValid(RowsOf(folded), d))
        /\ (\A j, k \in DOMAIN folded :
                j # k => DistinctValid(ChunkRows(folded[j]), d)
                            \cap DistinctValid(ChunkRows(folded[k]), d) = {})
            => daily[d].unique_valid_emails = Cardinality(DistinctValid(RowsOf(folded), d))

\* The same normalized e-mail on the same date in two chunks: counted twice.
C4_Witness ==
    /\ AllFolded
    /\ Len(folded) = 2
    /\ \E d \in DOMAIN daily :
          /\ Cardinality(DistinctValid(RowsOf(folded), d)) = 1
          /\ daily[d].unique_valid_emails = 2

(***************************************************************************)
(* C9                                                                      *)
(***************************************************************************)
\* C9: after any sequence of folds, for every date the domain counts sum to
\* at most the date's valid_emails.
C9_DomainSum ==
    \A d \in DOMAIN domains_daily :
        /\ d \in DOMAIN daily
        /\ SumOver(domains_daily[d], DOMAIN domains_daily[d]) <= daily[d].valid_emails

\* Two chunks, two domains on one date.
C9_Witness ==
    /\ Len(folded) = 2
    /\ \E d \in DOMAIN domains_daily : Cardinality(DOMAIN domains_daily[d]) = 2

(***************************************************************************)
(* C10                                                                     *)
(***************************************************************************)
RECURSIVE Concat(_)
\* the chunks of a sequence of chunks, joined
Concat(chunks) == IF chunks = <<>> THEN <<>> ELSE Head(chunks) \o Concat(Tail(chunks))

\* The rows folded by the run, in the order folded.
FoldedRows == [i \in DOMAIN Concat(folded) |-> source[Concat(folded)[i]]]

\* The counters of a date that do not depend on the cutting.
CutFree(row) ==
    [total_rows |-> row.total_rows, with_email |-> row.with_email,
     valid_emails |-> row.valid_emails, invalid_emails |-> row.invalid_emails,
     sendable_emails |-> row.sendable_emails]

\* C10: whatever the cutting, at the end of the run total_rows, with_email,
\* valid_emails, invalid_emails and sendable_emails per date, the counts per
\* (date, domain) and the e-mail index are those of the run that gets the
\* same rows as one chunk (so any two cuttings agree on them).
C10_CutInvariant ==
    AllFolded =>
        LET whole == Prepare(FoldedRows)
            one == DailyFold(EmptyMap, whole)
            g == DedupFold([counts |-> EmptyMap, first |-> EmptyMap, last |-> EmptyMap],
                           ValidAll(whole))
        IN  /\ DOMAIN daily = DOMAIN one
            /\ \A d \in DOMAIN daily : CutFree(daily[d]) = CutFree(one[d])
            /\ domains_daily = DomainsFold(EmptyMap, whole)
            /\ email_global_counts = g.counts
            /\ email_first_seen = g.first
            /\ email_last_seen = g.last

\* A cutting into two chunks on which unique_valid_emails does differ from
\* the one-chunk run.
C10_Witness ==
    /\ AllFolded
    /\ Len(folded) = 2
    /\ \E d \in DOMAIN daily :
          daily[d].unique_valid_emails
              # DailyFold(EmptyMap, Prepare(FoldedRows))[d].unique_valid_emails

(***************************************************************************)
(* C1                                                                      *)
(***************************************************************************)
\* The three tables as this run's flush leaves them when all of it commits.
FullyUpdated ==
    LET mtd_df == MtdDf(domains_daily)
        rep_df == RepDf(email_global_counts, email_first_seen, email_last_seen)
    IN  /\ metrics_daily = UpsertDaily(pre.metrics_daily, DailyDf(daily))
        /\ metrics_top_domains_daily =
              IF DOMAIN mtd_df # {} THEN UpsertDomains(pre.metrics_top_domains_daily, mtd_df)
              ELSE pre.metrics_top_domains_daily
        /\ metrics_repeated_emails =
              IF DOMAIN rep_df # {} THEN UpsertRepeated(pre.metrics_repeated_emails, rep_df)
              ELSE pre.metrics_repeated_emails

\* The three tables as they were when the run started.
Untouched ==
    /\ metrics_daily = pre.metrics_daily
    /\ metrics_top_domains_daily = pre.metrics_top_domains_daily
    /\ metrics_repeated_emails = pre.metrics_repeated_emails

\* C1: the flush is all-or-nothing: once the run has ended, in success or
\* in failure, the three tables hold either their rows from before the run
\* or the fully updated rows of all three.
C1_AllOrNothing == pc \in {"done", "failed"} => Untouched \/ FullyUpdated

C5_CountOverAllRuns ==
    (pc = "done" /\ allCompleted) =>
        \A e \in DOMAIN metrics_repeated_emails :
            metrics_repeated_emails[e].occurrences = Cardinality(RowsWith(processed, e))

\* C5 amended: once a run has flushed, the stored occurrences of every
\* e-mail the run folded is the number of valid rows with that e-mail (and
\* a date) folded by this run alone, and every other e-mail's occurrences
\* is what it was before the run.
C5_CountOfLatestRun ==
    Flushed =>
        \A e \in DOMAIN metrics_repeated_emails :
            IF RowsWith(RowsOf(folded), e) # {}
            THEN metrics_repeated_emails[e].occurrences
                    = Cardinality(RowsWith(RowsOf(folded), e))
            ELSE /\ e \in DOMAIN pre.metrics_repeated_emails
                 /\ metrics_repeated_emails[e].occurrences
                        = pre.metrics_repeated_emails[e].occurrences

\* A completed run over a narrower range has lowered an e-mail's occurrences.
C5_Witness ==
    /\ pc = "done"
    /\ allCompleted
    /\ \E e \in DOMAIN pre.metrics_repeated_emails :
          /\ RowsWith(RowsOf(folded), e) # {}
          /\ metrics_repeated_emails[e].occurrences < pre.metrics_repeated_emails[e].occurrences

(***************************************************************************)
(* C6                                                                      *)
(***************************************************************************)
\* C6: after completed runs only, every stored e-mail has first_seen the
\* minimum and last_seen the maximum date of the rows with that e-mail
\* folded by any of the runs, and first_seen <= last_seen; and a flush
\* never raises a stored first_seen nor lowers a stored last_seen.
C6_FirstLastSeen ==
    /\ (pc = "done" /\ allCompleted) =>
          \A e \in DOMAIN metrics_repeated_emails :
              LET dates == {RowDate(i) : i \in RowsWith(processed, e)}
              IN  /\ dates # {}
                  /\ metrics_repeated_emails[e].first_seen = MinOf(dates)
                  /\ metrics_repeated_emails[e].last_seen = MaxOf(dates)
    /\ \A e \in DOMAIN metrics_repeated_emails :
          metrics_repeated_emails[e].first_seen <= metrics_repeated_emails[e].last_seen
    /\ \A e \in DOMAIN pre.metrics_repeated_emails :
          /\ e \in DOMAIN metrics_repeated_emails
          /\ metrics_repeated_emails[e].first_seen <= pre.metrics_repeated_emails[e].first_seen
          /\ metrics_repeated_emails[e].last_seen >= pre.metrics_repeated_emails[e].last_seen

\* A completed narrower run saw an e-mail only on a later date than the
\* stored first_seen, which stayed.
C6_Witness ==
    /\ pc = "done"
    /\ allCompleted
    /\ \E e \in DOMAIN email_first_seen :
          /\ e \in DOMAIN pre.metrics_repeated_emails
          /\ email_first_seen[e] > pre.metrics_repeated_emails[e].first_seen
          /\ metrics_repeated_emails[e].first_seen = pre.metrics_repeated_emails[e].first_seen

C8_NothingPersistedBeforeFlush ==
    pending # <<>> => /\ Store = pre
                      /\ pc \in {"read", "failed"}

\* A later run failed on a chunk after folding another one, with rows and
\* files already there from an earlier run.
C8_Witness ==
    /\ pc = "failed"
    /\ pending # <<>>
    /\ folded # <<>>
    /\ DOMAIN pre.metrics_daily # {}
    /\ pre.parquet.data_full # <<>>

(***************************************************************************)
(* C11                                                                     *)
(***************************************************************************)
\* The e-mail cells the classifier contract calls EMPTY: null, or nothing
\* left once trimmed.
IsEmpty(raw) == raw = NULL \/ Strip(raw) = <<>>

\* The folded rows of date d.
RowsOfDate(d) == {i \in RowsOf(folded) : RowDate(i) = d}

\* C11: a folded row with a date whose e-mail is null or all whitespace
\* adds one to total_rows of its date and nothing to with_email,
\* valid_emails or invalid_emails: for every date, total_rows counts the
\* folded rows of the date and with_email, valid_emails, invalid_emails
\* count only those among them whose e-mail is not EMPTY.
C11_EmptyNotCounted ==
    \A d \in DOMAIN daily :
        LET filled == {i \in RowsOfDate(d) : ~IsEmpty(source[i].email)}
        IN  /\ daily[d].total_rows = Cardinality(RowsOfDate(d))
            /\ daily[d].with_email = Cardinality(filled)
            /\ daily[d].valid_emails = Cardinality({i \in filled : ValidRow(i)})
            /\ daily[d].invalid_emails = Cardinality({i \in filled : ~ValidRow(i)})

\* C11 for the all-whitespace cell alone: a date whose folded rows have no
\* null e-mail counts its whitespace-only rows in total_rows only.
C11_WhitespaceNotCounted ==
    \A d \in DOMAIN daily :
        (\A i \in RowsOfDate(d) : source[i].email # NULL) =>
            LET filled == {i \in RowsOfDate(d) : Strip(source[i].email) # <<>>}
            IN  /\ daily[d].total_rows = Cardinality(RowsOfDate(d))
                /\ daily[d].with_email = Cardinality(filled)
                /\ daily[d].valid_emails = Cardinality({i \in filled : ValidRow(i)})
                /\ daily[d].invalid_emails = Cardinality({i \in filled : ~ValidRow(i)})

(***************************************************************************)
(* C12                                                                     *)
(***************************************************************************)
\* The one row of the table has been folded and has a date.
OneRowFolded == Len(source) = 1 /\ folded = <<<<1>>>> /\ RowDate(1) # NaT

\* How the fold has classified the one row: by the counters of its date.
Classified ==
    LET row == daily[RowDate(1)]
    IN  IF row.with_email = 0 THEN "EMPTY"
        ELSE IF row.valid_emails = 1 /\ row.invalid_emails = 0 THEN "VALID"
        ELSE IF row.valid_emails = 0 /\ row.invalid_emails = 1 THEN "INVALID"
        ELSE "NONE"

\* The domains the fold has counted for the one row.
CountedDomains ==
    IF RowDate(1) \in DOMAIN domains_daily THEN DOMAIN domains_daily[RowDate(1)] ELSE {}

D_bc == <<"b", ".", "c">>
D_sub_example_co == <<"s", "u", "b", ".", "e", "x", "a", "m", "p", "l", "e", ".", "c", "o">>

\* The classifier table as listed: string -> class and domains.
ListedTable ==
    (S_abc :> [class |-> "VALID", domains |-> {D_bc}])
    @@ (S_two_ats :> [class |-> "INVALID", domains |-> {}])
    @@ (S_john :> [class |-> "VALID", domains |-> {D_sub_example_co}])
    @@ (S_not_an_email :> [class |-> "INVALID", domains |-> {}])
    @@ (E_ws :> [class |-> "EMPTY", domains |-> {}])

\* The same table with "a@b.c" INVALID: its top-level domain has one letter.
TwoLetterTable ==
    [e \in DOMAIN ListedTable |->
        IF e = S_abc THEN [class |-> "INVALID", domains |-> {}] ELSE ListedTable[e]]

\* C12 as stated: the fold classifies each of the five listed strings as
\* the table says: "a@b.c" VALID with domain b.c, "a@@b.com" INVALID,
\* "John.Doe+x@sub.example.co" VALID with domain sub.example.co,
\* "not-an-email" INVALID, " " EMPTY.
C12_ListedTable ==
    (OneRowFolded /\ source[1].email \in DOMAIN ListedTable) =>
        /\ Classified = ListedTable[source[1].email].class
        /\ CountedDomains = ListedTable[source[1].email].domains

\* C12 amended: the fold classifies "a@b.c" as INVALID and counts no domain
\* for it, and the four other listed strings as the table says; the class
\* is that of EMAIL_REGEX on the trimmed, lowercased string and the domain
\* that of email_domain.
C12_TwoLetterTable ==
    (OneRowFolded /\ source[1].email \in DOMAIN TwoLetterTable) =>
        LET e == source[1].email
        IN  /\ Classified = TwoLetterTable[e].class
            /\ CountedDomains = TwoLetterTable[e].domains
            /\ (Classified = "VALID") = EMAIL_REGEX(Norm(e))
            /\ Classified = "VALID" => CountedDomains = {email_domain(Norm(e))}

\* "a@b.c" has been folded: INVALID, no domain counted.
C12_Witness ==
    /\ OneRowFolded
    /\ source[1].email = S_abc
    /\ Classified = "INVALID"
    /\ CountedDomains = {}

(***************************************************************************)
(* C13                                                                     *)
(***************************************************************************)
\* The process is about to write one of the five snapshot files.
WritingSnapshot == pc \in {"pq_daily", "pq_domains", "pq_emails", "pq_emails_daily", "pq_full"}

\* C13: a failure while writing a snapshot file is not fatal: no step taken
\* while a snapshot file is being written ends the run in the failed state
\* or changes the committed rows of the three tables, so the run goes on to
\* the remaining files.
C13_SnapshotFailureNotFatal ==
    [][WritingSnapshot => (pc' # "failed" /\ UNCHANGED tables)]_vars

\* C13, the part that holds: whatever happens while the snapshot files are
\* written, the rows committed by the flush stay as committed.
C13_CommittedRowsStay ==
    [][WritingSnapshot => UNCHANGED tables]_vars

(***************************************************************************)
(* C14                                                                     *)
(***************************************************************************)
\* For every folded row: its normalized e-mail when the e-mail is valid and
\* the row has a date, <<>> otherwise.
IndexKey ==
    [i \in RowsOf(folded) |->
        LET e == Norm(source[i].email)
        IN  IF RowDate(i) # NaT /\ EMAIL_REGEX(e) THEN e ELSE <<>>]

\* C14: after any sequence of folds the e-mail index has exactly the
\* normalized e-mails of the folded rows with a valid e-mail and a date;
\* for each, email_global_counts is the number of those rows (at least 1),
\* email_first_seen the minimum and email_last_seen the maximum of their
\* dates, first_seen <= last_seen; all of it a function of the set of rows
\* folded, whatever the order and the cutting.
C14_DedupIndex ==
    LET key == IndexKey
        indexed == {key[i] : i \in DOMAIN key} \ {<<>>}
    IN  /\ DOMAIN email_global_counts = indexed
        /\ DOMAIN email_first_seen = indexed
        /\ DOMAIN email_last_seen = indexed
        /\ \A e \in indexed :
              LET rows == {i \in DOMAIN key : key[i] = e}
                  dates == {RowDate(i) : i \in rows}
              IN  /\ email_global_counts[e] >= 1
                  /\ email_global_counts[e] = Cardinality(rows)
                  /\ email_first_seen[e] = MinOf(dates)
                  /\ email_last_seen[e] = MaxOf(dates)
                  /\ email_first_seen[e] <= email_last_seen[e]

\* Two batches with the same normalized e-mail on different dates, the
\* later date folded first.
C14_Witness ==
    /\ Len(folded) = 2
    /\ \E e \in DOMAIN email_global_counts :
          /\ email_global_counts[e] = 2
          /\ email_first_seen[e] < email_last_seen[e]
          /\ RowDate(folded[1][1]) = email_last_seen[e]
          /\ RowDate(folded[2][1]) = email_first_seen[e]
          /\ source[folded[1][1]].email # source[folded[2][1]].email

(***************************************************************************)
(* C15                                                                     *)
(***************************************************************************)
\* Every row of the chunk has a null or unparseable creation date.
NoDateIn(idx) == \A i \in ChunkRows(idx) : RowDate(i) = NaT

\* C15: folding a batch whose rows all have a null or unparseable creation
\* date changes none of daily, domains_daily, email_global_counts,
\* email_first_seen, email_last_seen, whatever the e-mails of the rows.
C15_NoDateNoChange ==
    [][(pending # <<>> /\ NoDateIn(Head(pending)) /\ folded' = Append(folded, Head(pending)))
          => UNCHANGED accs]_vars

\* A batch of rows without a date, one of them with a valid e-mail, has
\* been folded after a batch that did fill the accumulators.
C15_Witness ==
    /\ Len(folded) = 2
    /\ NoDateIn(folded[2])
    /\ \E i \in ChunkRows(folded[2]) : ValidRow(i)
    /\ DOMAIN daily # {}
    /\ DOMAIN email_global_counts # {}

(***************************************************************************)
(* C16                                                                     *)
(***************************************************************************)
\* The stored (date, domain) keys of date d.
StoredDomainsOf(d) == {k \in DOMAIN metrics_top_domains_daily : k[1] = d}

\* C16: after any sequence of completed runs, every stored date has the
\* cnt of its stored (date, domain) rows summing to at most its stored
\* valid_emails, and every stored (date, domain) row of a date the latest
\* run folded is a row that run produced.
C16_NoStaleDomainRow ==
    (pc = "done" /\ allCompleted) =>
        /\ \A d \in DOMAIN metrics_daily :
              SumOver(metrics_top_domains_daily, StoredDomainsOf(d))
                  <= metrics_daily[d].valid_emails
        /\ \A k \in DOMAIN metrics_top_domains_daily :
              k[1] \in DOMAIN daily => k \in DOMAIN MtdDf(domains_daily)

====
